---- MODULE Spec2Model ----
(***************************************************************************)
(* Model of GPflowOpt/bo.py: the BayesianOptimizer driver.                 *)
(*                                                                         *)
(* A numpy 2-D array is a record [nc |-> columns, rows |-> <<row, ...>>],  *)
(* every row a tuple of nc numbers; its shape is (Len(rows), nc).          *)
(* The acquisition object, the inner optimizer, the design and the         *)
(* Optimizer base class live outside bo.py; they are modelled by the       *)
(* contract bo.py consumes (data, set_data, feasible_data_index,           *)
(* objective_indices, get_initial, set_initial, optimize).                 *)
(***************************************************************************)
EXTENDS Integers, Sequences, FiniteSets, TLC

\* ---------------------------------------------------------------- bounds
\* matrix entries are drawn from 0..MaxVal
MaxVal == 1
\* optimize is called only while the dataset stays within MaxRows rows
MaxRows == 3
\* rows of the initial design
MaxDesign == 1
\* rows of the data the acquisition holds before the driver exists
MaxPrior == 1
\* rows of the datasets and batches on which _update_model_data and
\* _create_bo_result are exercised on their own
MaxDirect == 2

Vals == 0..MaxVal

\* ---------------------------------------------------------------- numpy
Shape0(A) == Len(A.rows)
Shape1(A) == A.nc
Size(A) == Len(A.rows) * A.nc

\* np.empty((0, c)) and np.zeros((n, 0))
Empty(c) == [nc |-> c, rows |-> <<>>]
Zeros0(n) == [nc |-> 0, rows |-> [k \in 1..n |-> <<>>]]

\* np.zeros((n, c))
Zeros(n, c) == [nc |-> c, rows |-> [k \in 1..n |-> [j \in 1..c |-> 0]]]

\* all n x c arrays with n <= maxn
Mats(c, maxn) ==
    UNION { [nc : {c}, rows : [1..n -> [1..c -> Vals]]] : n \in 0..maxn }

\* vstack with the new rows put first
vstack_prepend(A, B) == [nc |-> A.nc, rows |-> B.rows \o A.rows]

\* np.vstack((A, B)) of two arrays of equal column count
vstack(A, B) == [nc |-> A.nc, rows |-> A.rows \o B.rows]

\* np.hstack of a non-empty sequence of arrays of equal row count n
RECURSIVE hstackRow(_, _)
hstackRow(parts, k) ==
    IF parts = <<>> THEN <<>>
    ELSE Head(parts).rows[k] \o hstackRow(Tail(parts), k)

RECURSIVE SumNc(_)
SumNc(parts) == IF parts = <<>> THEN 0 ELSE Head(parts).nc + SumNc(Tail(parts))

\* hstack putting the arrays side by side in the reverse order
hstack_reverse(parts, n) ==
    [nc |-> SumNc(parts),
     rows |-> [k \in 1..n |->
                 hstackRow([j \in 1..Len(parts) |-> parts[Len(parts) + 1 - j]], k)]]

hstack(parts, n) ==
    [nc |-> SumNc(parts), rows |-> [k \in 1..n |-> hstackRow(parts, k)]]

\* np.argmin of a non-empty flat sequence: 1-based position of the first minimum
argmin(s) ==
    CHOOSE k \in 1..Len(s) :
        /\ \A j \in 1..Len(s) : s[k] <= s[j]
        /\ \A j \in 1..(k - 1) : s[j] > s[k]

\* A[mask, :]: the rows of A the boolean mask selects, in order
RECURSIVE SelectRows(_, _)
SelectRows(rows, mask) ==
    IF rows = <<>> THEN <<>>
    ELSE (IF Head(mask) THEN <<Head(rows)>> ELSE <<>>)
         \o SelectRows(Tail(rows), Tail(mask))

\* row[idx]: the columns idx (a sequence of column numbers) of one row
TakeCols(row, idx) == [k \in 1..Len(idx) |-> row[idx[k]]]

\* a.flatten() of a 2-D array given as rows, row-major
RECURSIVE Flatten(_)
Flatten(rows) == IF rows = <<>> THEN <<>> ELSE Head(rows) \o Flatten(Tail(rows))


\* ------------------------------------------------- external collaborators
\* The acquisition's shape: d input columns, m response columns, obj the
\* response columns objective_indices() designates; the other response
\* columns are constraint outputs.
Configs ==
    { [d |-> 1, m |-> 1, obj |-> <<1>>],
      [d |-> 1, m |-> 2, obj |-> <<1>>],
      [d |-> 1, m |-> 2, obj |-> <<1, 2>>],
      [d |-> 2, m |-> 1, obj |-> <<1>>] }

\* Acquisition.objective_indices()
objective_indices(c) == c.obj

ConstraintCols(c) == { k \in 1..c.m : \A j \in 1..Len(c.obj) : c.obj[j] # k }

\* Acquisition.feasible_data_index(): a row is feasible when every
\* constraint output satisfies its threshold (here: is not positive)
feasible_data_index(c, Y) ==
    [k \in 1..Len(Y.rows) |-> \A col \in ConstraintCols(c) : Y.rows[k][col] <= 0]

\* The domain the driver, its design and its inner optimizer work on: the
\* points with entries in Vals whose coordinates sum to at most MaxVal
RECURSIVE SumSeq(_)
SumSeq(x) == IF x = <<>> THEN 0 ELSE Head(x) + SumSeq(Tail(x))
Domain(c) == { x \in [1..c.d -> Vals] : SumSeq(x) <= MaxVal }

\* all n x D arrays of points of the domain with n <= maxn
DomainMats(c, maxn) ==
    UNION { [nc : {c.d}, rows : [1..n -> Domain(c)]] : n \in 0..maxn }

\* Design.generate(): N x D points; EmptyDesign(domain).generate(): 0 x D
Designs(c) == DomainMats(c, MaxDesign)
EmptyDesign(c) == Empty(c.d)

\* Acquisition.evaluate_with_gradients(P) on data (X, Y): for each of the N
\* candidate points of P a utility (N x 1) and its gradient (N x D). The
\* utility falls with every observation already made at the point.
evaluate_with_gradients(X, Y, P) ==
    << [nc |-> 1,
        rows |-> [n \in 1..Len(P.rows) |->
                    << SumSeq(P.rows[n])
                       - Cardinality({ k \in 1..Len(X.rows) : X.rows[k] = P.rows[n] }) >>]],
       [nc |-> P.nc,
        rows |-> [n \in 1..Len(P.rows) |->
                    [j \in 1..P.nc |-> 2 * P.rows[n][j] - MaxVal]]] >>

\* The black-box functions a caller passes to optimize. Each maps an N x D
\* batch to a batch of q columns, row by row; "fail" raises on a batch
\* holding a point whose first coordinate is MaxVal, and "drop" returns no
\* row for such a point (so it does not keep to the N-rows contract there).
FnWidth(f) == IF f = "pair" THEN 2 ELSE 1
FnRow(f, x) ==
    CASE f = "x" -> <<x[1]>>
      [] f = "inv" -> <<MaxVal - x[1]>>
      [] f = "zero" -> <<0>>
      [] f = "pair" -> <<x[1], MaxVal - x[1]>>
      [] f = "fail" -> <<x[1]>>
      [] f = "drop" -> <<MaxVal - x[1]>>
FnRaises(f, X) == f = "fail" /\ \E k \in 1..Len(X.rows) : X.rows[k][1] = MaxVal
FnKeeps(f, X) == [k \in 1..Len(X.rows) |-> f # "drop" \/ X.rows[k][1] < MaxVal]
FnApply(f, X) ==
    LET kept == SelectRows(X.rows, FnKeeps(f, X))
    IN  [nc |-> FnWidth(f), rows |-> [k \in 1..Len(kept) |-> FnRow(f, kept[k])]]

\* np.atleast_1d(objectivefx): one callable or a list of callables
FxsChoices ==
    { <<"x">>, <<"fail">>, <<"drop">>, <<"pair">>,
      <<"x", "zero">>, <<"inv", "x">>, <<"x", "fail">> }

\* ------------------------------------------------------------------ bo.py
\* _update_model_data handing set_data the new rows alone
_update_model_data_replace(X, Y, newX, newY) ==
    IF Shape1(X) # Shape1(newX) \/ Shape1(Y) # Shape1(newY) \/ Shape0(newX) # Shape0(newY)
    THEN [err |-> "AssertionError", X |-> X, Y |-> Y]
    ELSE [err |-> "none", X |-> newX, Y |-> newY]

\* _update_model_data cutting both arguments to the shorter one's rows
\* instead of asserting equal row counts
_update_model_data_truncate(X, Y, newX, newY) ==
    IF Shape1(X) # Shape1(newX) \/ Shape1(Y) # Shape1(newY)
    THEN [err |-> "AssertionError", X |-> X, Y |-> Y]
    ELSE LET n == IF Shape0(newX) < Shape0(newY) THEN Shape0(newX) ELSE Shape0(newY)
         IN  [err |-> "none",
              X |-> [nc |-> X.nc, rows |-> X.rows \o SubSeq(newX.rows, 1, n)],
              Y |-> [nc |-> Y.nc, rows |-> Y.rows \o SubSeq(newY.rows, 1, n)]]

\* _update_model_data without the row-count assertion
_update_model_data_norowcheck(X, Y, newX, newY) ==
    IF Shape1(X) # Shape1(newX) \/ Shape1(Y) # Shape1(newY)
    THEN [err |-> "AssertionError", X |-> X, Y |-> Y]
    ELSE [err |-> "none", X |-> vstack(X, newX), Y |-> vstack(Y, newY)]

\* _update_model_data(newX, newY) on data (X, Y): the three assertions,
\* then the arguments of acquisition.set_data
_update_model_data(X, Y, newX, newY) ==
    IF Shape1(X) # Shape1(newX) THEN [err |-> "AssertionError", X |-> X, Y |-> Y]
    ELSE IF Shape1(Y) # Shape1(newY) THEN [err |-> "AssertionError", X |-> X, Y |-> Y]
    ELSE IF Shape0(newX) # Shape0(newY) THEN [err |-> "AssertionError", X |-> X, Y |-> Y]
    ELSE [err |-> "none", X |-> vstack(X, newX), Y |-> vstack(Y, newY)]

\* _evaluate_objectives taking the width of the empty result from the points
_evaluate_objectives_xwidth(X, fs, Y) ==
    IF Size(X) > 0
    THEN IF \E k \in 1..Len(fs) : FnRaises(fs[k], X)
         THEN [err |-> "ObjectiveError", f |-> Empty(0), g |-> Empty(0)]
         ELSE LET parts == [k \in 1..Len(fs) |-> FnApply(fs[k], X)]
                  evaluations == hstack(parts, Shape0(parts[1]))
              IN  IF \E k \in 1..Len(parts) : Shape0(parts[k]) # Shape0(parts[1])
                  THEN [err |-> "ValueError", f |-> Empty(0), g |-> Empty(0)]
                  ELSE IF Shape1(evaluations) # Shape1(Y)
                  THEN [err |-> "AssertionError", f |-> Empty(0), g |-> Empty(0)]
                  ELSE [err |-> "none", f |-> evaluations, g |-> Zeros0(Shape0(X))]
    ELSE [err |-> "none", f |-> Empty(Shape1(X)), g |-> Zeros0(0)]

\* _evaluate_objectives(X, fxs) with Y the acquisition's current responses:
\* (evaluations, placeholder) or the exception raised
_evaluate_objectives(X, fs, Y) ==
    IF Size(X) > 0
    THEN IF \E k \in 1..Len(fs) : FnRaises(fs[k], X)
         THEN [err |-> "ObjectiveError", f |-> Empty(0), g |-> Empty(0)]
         ELSE LET parts == [k \in 1..Len(fs) |-> FnApply(fs[k], X)]
                  evaluations == hstack(parts, Shape0(parts[1]))
              IN  IF \E k \in 1..Len(parts) : Shape0(parts[k]) # Shape0(parts[1])
                  THEN [err |-> "ValueError", f |-> Empty(0), g |-> Empty(0)]
                  ELSE IF Shape1(evaluations) # Shape1(Y)
                  THEN [err |-> "AssertionError", f |-> Empty(0), g |-> Empty(0)]
                  ELSE [err |-> "none", f |-> evaluations, g |-> Zeros0(Shape0(X))]
    ELSE [err |-> "none", f |-> Empty(Shape1(Y)), g |-> Zeros0(0)]

\* ObjectiveWrapper(objective, exclude_gradient=True).__call__: the
\* placeholder gradient is dropped
fx(X, fs, Y) ==
    LET r == _evaluate_objectives(X, fs, Y) IN [err |-> r.err, f |-> r.f]

\* _create_bo_result taking the argmin over all rows, feasible or not
_create_bo_result_nofilter(c, X, Y, success, message) ==
    LET valid == feasible_data_index(c, Y) IN
    IF ~ \E k \in 1..Len(valid) : valid[k]
    THEN [err |-> "none",
          res |-> [success |-> FALSE,
                   message |-> "No evaluations satisfied the constraints"]]
    ELSE LET Yo == [k \in 1..Len(Y.rows) |-> TakeCols(Y.rows[k], objective_indices(c))]
             idx == argmin(Flatten(Yo))
         IN  IF idx > Len(X.rows) THEN [err |-> "IndexError", res |-> [success |-> FALSE]]
             ELSE [err |-> "none",
                   res |-> [x |-> X.rows[idx], success |-> success,
                            fun |-> Yo[idx], message |-> message]]

\* _create_bo_result reporting the success flag and message it was given
\* when nothing is feasible
_create_bo_result_passflag(c, X, Y, success, message) ==
    [err |-> "none", res |-> [success |-> success, message |-> message]]

\* _create_bo_result reading the value from the unfiltered responses
_create_bo_result_rowmix(c, X, Y, success, message) ==
    LET valid == feasible_data_index(c, Y) IN
    IF ~ \E k \in 1..Len(valid) : valid[k]
    THEN [err |-> "none",
          res |-> [success |-> FALSE,
                   message |-> "No evaluations satisfied the constraints"]]
    ELSE LET valid_X == SelectRows(X.rows, valid)
             valid_Y == SelectRows(Y.rows, valid)
             valid_Yo == [k \in 1..Len(valid_Y) |-> TakeCols(valid_Y[k], objective_indices(c))]
             flat == Flatten(valid_Yo)
         IN  IF flat = <<>> THEN [err |-> "ValueError", res |-> [success |-> FALSE]]
             ELSE LET idx == argmin(flat) IN
                  IF idx > Len(valid_X) THEN [err |-> "IndexError", res |-> [success |-> FALSE]]
                  ELSE [err |-> "none",
                        res |-> [x |-> valid_X[idx], success |-> success,
                                 fun |-> TakeCols(Y.rows[idx], objective_indices(c)),
                                 message |-> message]]

\* _create_bo_result going on to the argmin when nothing is feasible
_create_bo_result_noguard(c, X, Y, success, message) ==
    LET valid == feasible_data_index(c, Y)
        valid_X == SelectRows(X.rows, valid)
        valid_Y == SelectRows(Y.rows, valid)
        valid_Yo == [k \in 1..Len(valid_Y) |-> TakeCols(valid_Y[k], objective_indices(c))]
        flat == Flatten(valid_Yo)
    IN  IF flat = <<>> THEN [err |-> "ValueError", res |-> [success |-> FALSE]]
        ELSE LET idx == argmin(flat) IN
             IF idx > Len(valid_X) THEN [err |-> "IndexError", res |-> [success |-> FALSE]]
             ELSE [err |-> "none",
                   res |-> [x |-> valid_X[idx], success |-> success,
                            fun |-> valid_Yo[idx], message |-> message]]

\* _create_bo_result(success, message) on data (X, Y)
_create_bo_result(c, X, Y, success, message) ==
    LET valid == feasible_data_index(c, Y) IN
    IF ~ \E k \in 1..Len(valid) : valid[k]
    THEN [err |-> "none",
          res |-> [success |-> FALSE,
                   message |-> "No evaluations satisfied the constraints"]]
    ELSE LET valid_X == SelectRows(X.rows, valid)
             valid_Y == SelectRows(Y.rows, valid)
             valid_Yo == [k \in 1..Len(valid_Y) |-> TakeCols(valid_Y[k], objective_indices(c))]
             flat == Flatten(valid_Yo)
         IN  IF flat = <<>> THEN [err |-> "ValueError", res |-> [success |-> FALSE]]
             ELSE LET idx == argmin(flat) IN
                  IF idx > Len(valid_X) THEN [err |-> "IndexError", res |-> [success |-> FALSE]]
                  ELSE [err |-> "none",
                        res |-> [x |-> valid_X[idx], success |-> success,
                                 fun |-> valid_Yo[idx], message |-> message]]


\* -r for an array r
Neg(A) == [nc |-> A.nc,
           rows |-> [n \in 1..Len(A.rows) |-> [j \in 1..A.nc |-> 0 - A.rows[n][j]]]]

\* inverse_acquisition negating the utility and not the gradient
inverse_acquisition_utility(X, Y, P) ==
    LET r == evaluate_with_gradients(X, Y, P) IN << Neg(r[1]), r[2] >>

\* inverse_acquisition(x) on data (X, Y), with P = np.atleast_2d(x)
inverse_acquisition(X, Y, P) ==
    LET r == evaluate_with_gradients(X, Y, P) IN [k \in 1..Len(r) |-> Neg(r[k])]

\* ------------------------------------------------------------------ state
VARIABLES
    env,        \* what the callers use: "optimize", "fold" or "reduce" (fixed)
    cfg,        \* the acquisition's shape and objective columns (fixed)
    dataX,      \* acquisition.data[0]
    dataY,      \* acquisition.data[1]
    initial,    \* the driver's initial-design buffer (get_initial/set_initial)
    pc,         \* "unbuilt", "idle", or the position inside _optimize
    fxs,        \* _optimize: the functions wrapped by fx
    n_iter,     \* _optimize: n_iter of the current or last call
    i,          \* _optimize: completed loop iterations
    values,     \* _optimize: the responses just evaluated, not yet folded
    resx,       \* _optimize: result.x of the inner optimizer, or the points the
                \* inner optimizer is asking about
    result,     \* <<r>>: the value the last operation returned
    last,       \* how the last operation ended
    started,    \* an optimize call has started
    returned,   \* an optimize call has returned a result
    second,     \* the current or last call started after another call
    afterDone,  \* the current or last call started after a call that returned
    startN,     \* rows of the dataset when the current or last call started
    startK,     \* rows of the buffer when the current or last call started
    obsX,       \* points evaluated by the current or last call, in order
    obsY,       \* their responses
    histX,      \* the initial rows of X followed by every folded batch
    histY,      \* the same for Y
    fcalls,     \* black-box function invocations of the current or last call
    flog,       \* those invocations in order: <<position in fxs, batch rows>>
    setcalls    \* set_data calls of the current or last optimize call or fold

vars == <<env, cfg, dataX, dataY, initial, pc, fxs, n_iter, i, values, resx, result,
          last, started, returned, second, afterDone, startN, startK, obsX, obsY,
          histX, histY, fcalls, flog, setcalls>>

\* the variables of one _optimize activation
locals == <<fxs, values, resx>>
flags == <<started, returned, second, afterDone>>
NoLocals == fxs' = <<>> /\ values' = Empty(0) /\ resx' = Empty(0)

\* all (X, Y) of n rows an acquisition of shape c can hold
Datasets(c, n) ==
    [X : [nc : {c.d}, rows : [1..n -> [1..c.d -> Vals]]],
     Y : [nc : {c.m}, rows : [1..n -> [1..c.m -> Vals]]]]

\* everything but the acquisition's data and the driver's position
InitRest ==
    /\ initial = Empty(cfg.d)
    /\ fxs = <<>> /\ values = Empty(0) /\ resx = Empty(0)
    /\ n_iter = 0 /\ i = 0
    /\ result = <<>>
    /\ last = "none"
    /\ started = FALSE /\ returned = FALSE /\ second = FALSE /\ afterDone = FALSE
    /\ startN = 0 /\ startK = 0
    /\ obsX = <<>> /\ obsY = <<>>
    /\ histX = dataX.rows /\ histY = dataY.rows
    /\ fcalls = 0 /\ flog = <<>>
    /\ setcalls = 0

\* the data an acquisition of shape c holds before the driver exists: at
\* most MaxPrior points and the responses of some functions of the right
\* total width at them
PriorData(c) ==
    { [X |-> X0, Y |-> hstack([k \in 1..Len(fs) |-> FnApply(fs[k], X0)], Shape0(X0))] :
        X0 \in DomainMats(c, MaxPrior),
        fs \in { g \in FxsChoices :
                   /\ SumNc([k \in 1..Len(g) |-> [nc |-> FnWidth(g[k])]]) = c.m
                   /\ \A k \in 1..Len(g) : g[k] \notin {"fail", "drop"} } }

\* an acquisition holding some data, no driver constructed yet
Init ==
    /\ env = "optimize"
    /\ cfg \in Configs
    /\ \E ds \in PriorData(cfg) : dataX = ds.X /\ dataY = ds.Y
    /\ pc = "unbuilt"
    /\ InitRest

\* Optimizer.set_initial(points): store the points in the buffer
set_initial(points) == initial' = points

\* Acquisition.set_data(X, Y): replace the dataset; calls is the number of
\* set_data calls the running operation has made before this one
set_data(X, Y, calls) == dataX' = X /\ dataY' = Y /\ setcalls' = calls + 1

\* __init__ folding the design into the dataset right away, with zero responses
Construct_eager(design, hyper) ==
    /\ pc = "unbuilt"
    /\ LET g == IF design = <<>> THEN EmptyDesign(cfg) ELSE design[1] IN
       /\ set_data(vstack(dataX, g), vstack(dataY, Zeros(Shape0(g), cfg.m)), 0)
       /\ histX' = histX \o g.rows
       /\ histY' = histY \o Zeros(Shape0(g), cfg.m).rows
       /\ set_initial(EmptyDesign(cfg))
    /\ pc' = "idle"
    /\ last' = "construct"
    /\ UNCHANGED <<env, cfg, locals, n_iter, i, result, flags,
                   startN, startK, obsX, obsY, fcalls, flog>>

\* __init__(domain, acquisition, optimizer, initial, hyper_draws);
\* design and hyper are <<>> for None, <<v>> for a value
Construct(design, hyper) ==
    /\ pc = "unbuilt"
    /\ IF hyper # <<>> /\ hyper[1] <= 0
       THEN /\ last' = "construct_raised"
            /\ UNCHANGED <<initial, pc>>
       ELSE /\ set_initial(IF design = <<>> THEN EmptyDesign(cfg) ELSE design[1])
            /\ pc' = "idle"
            /\ last' = "construct"
    /\ UNCHANGED <<env, cfg, dataX, dataY, locals, n_iter, i, result, flags,
                   startN, startK, obsX, obsY, histX, histY, fcalls, flog, setcalls>>

\* the exception leaves _optimize and optimize
Raise(where) ==
    /\ pc' = "idle"
    /\ last' = where
    /\ result' = <<>>
    /\ NoLocals

\* functions invoked by one fx(X): none on an empty batch, else every
\* function up to the first that raises
RECURSIVE Invoked(_, _)
Invoked(fs, X) ==
    IF fs = <<>> THEN 0
    ELSE IF FnRaises(Head(fs), X) THEN 1
    ELSE 1 + Invoked(Tail(fs), X)

\* the functions applied whatever the size of the batch
FnCalls_always(fs, X) == Invoked(fs, X)

FnCalls(fs, X) == IF Size(X) > 0 THEN Invoked(fs, X) ELSE 0

\* the same invocations, each with the batch it was given
CallLog(fs, X) == [k \in 1..FnCalls(fs, X) |-> <<k, X.rows>>]

\* optimize(objectivefx, n_iter) entering _optimize:
\* initial = self.get_initial(); values = fx(initial)
OptimizeStart(fs, n) ==
    /\ pc = "idle"
    /\ Shape0(dataX) + Shape0(initial) + n <= MaxRows
    /\ started' = TRUE /\ second' = started /\ afterDone' = returned
    /\ n_iter' = n /\ i' = 0
    /\ startN' = Shape0(dataX) /\ startK' = Shape0(initial)
    /\ fcalls' = FnCalls(fs, initial) /\ flog' = CallLog(fs, initial)
    /\ setcalls' = 0
    /\ LET r == fx(initial, fs, dataY) IN
       IF r.err # "none"
       THEN /\ Raise("raised_eval_initial")
            /\ obsX' = <<>> /\ obsY' = <<>>
       ELSE /\ pc' = "fold_initial"
            /\ fxs' = fs /\ values' = r.f /\ resx' = Empty(0)
            /\ obsX' = initial.rows /\ obsY' = r.f.rows
            /\ result' = <<>>
            /\ last' = "running"
    /\ UNCHANGED <<env, cfg, dataX, dataY, initial, returned, histX, histY>>

\* the initial fold without the reset of the buffer
FoldInitial_keep ==
    /\ pc = "fold_initial"
    /\ LET u == _update_model_data(dataX, dataY, initial, values) IN
       /\ u.err = "none"
       /\ set_data(u.X, u.Y, setcalls)
       /\ histX' = histX \o initial.rows /\ histY' = histY \o values.rows
    /\ pc' = "loop"
    /\ values' = Empty(0)
    /\ UNCHANGED <<env, cfg, initial, fxs, resx, result, last, n_iter, i, flags,
                   startN, startK, obsX, obsY, fcalls, flog>>

\* the initial fold left out when the buffer is empty
FoldInitial_skipempty ==
    /\ pc = "fold_initial"
    /\ LET u == _update_model_data(dataX, dataY, initial, values) IN
       IF u.err # "none"
       THEN /\ Raise("raised_fold_initial")
            /\ UNCHANGED <<dataX, dataY, initial, histX, histY, setcalls>>
       ELSE /\ IF Size(initial) > 0
               THEN /\ set_data(u.X, u.Y, setcalls)
                    /\ histX' = histX \o initial.rows /\ histY' = histY \o values.rows
               ELSE UNCHANGED <<dataX, dataY, histX, histY, setcalls>>
            /\ set_initial(EmptyDesign(cfg))
            /\ pc' = "loop"
            /\ values' = Empty(0)
            /\ UNCHANGED <<fxs, resx, result, last>>
    /\ UNCHANGED <<env, cfg, n_iter, i, flags, startN, startK, obsX, obsY, fcalls, flog>>

\* the reset of the buffer done before the initial fold
FoldInitial_clearfirst ==
    /\ pc = "fold_initial"
    /\ set_initial(EmptyDesign(cfg))
    /\ LET u == _update_model_data(dataX, dataY, initial, values) IN
       IF u.err # "none"
       THEN /\ Raise("raised_fold_initial")
            /\ UNCHANGED <<dataX, dataY, histX, histY, setcalls>>
       ELSE /\ set_data(u.X, u.Y, setcalls)
            /\ histX' = histX \o initial.rows /\ histY' = histY \o values.rows
            /\ pc' = "loop"
            /\ values' = Empty(0)
            /\ UNCHANGED <<fxs, resx, result, last>>
    /\ UNCHANGED <<env, cfg, n_iter, i, flags, startN, startK, obsX, obsY, fcalls, flog>>

\* self._update_model_data(initial, values);
\* self.set_initial(EmptyDesign(self.domain).generate())
FoldInitial ==
    /\ pc = "fold_initial"
    /\ LET u == _update_model_data(dataX, dataY, initial, values) IN
       IF u.err # "none"
       THEN /\ Raise("raised_fold_initial")
            /\ UNCHANGED <<dataX, dataY, initial, histX, histY, setcalls>>
       ELSE /\ set_data(u.X, u.Y, setcalls)
            /\ histX' = histX \o initial.rows /\ histY' = histY \o values.rows
            /\ set_initial(EmptyDesign(cfg))
            /\ pc' = "loop"
            /\ values' = Empty(0)
            /\ UNCHANGED <<fxs, resx, result, last>>
    /\ UNCHANGED <<env, cfg, n_iter, i, flags, startN, startK, obsX, obsY, fcalls, flog>>

\* for i in range(n_iter): result = self.optimizer.optimize(inverse_acquisition)
\* the inner optimizer returns one point of the domain, as a 1 x D array
InnerOptimize(p) ==
    /\ pc = "loop"
    /\ i < n_iter
    /\ resx' = [nc |-> cfg.d, rows |-> <<p>>]
    /\ pc' = "eval"
    /\ UNCHANGED <<env, cfg, dataX, dataY, initial, fxs, n_iter, i, values, result, last,
                   flags, startN, startK, obsX, obsY, histX, histY, fcalls, flog,
                   setcalls>>

\* inside self.optimizer.optimize: the inner optimizer calls the function it
\* was given at the candidate points P
Probe(P) ==
    /\ pc = "loop"
    /\ i < n_iter
    /\ resx' = P
    /\ result' = << inverse_acquisition(dataX, dataY, P) >>
    /\ UNCHANGED <<env, cfg, dataX, dataY, initial, pc, fxs, n_iter, i, values, last,
                   flags, startN, startK, obsX, obsY, histX, histY, fcalls, flog,
                   setcalls>>

\* the inner optimizer raises
InnerRaises ==
    /\ pc = "loop"
    /\ i < n_iter
    /\ Raise("raised_inner")
    /\ UNCHANGED <<env, cfg, dataX, dataY, initial, n_iter, i, flags, startN, startK,
                   obsX, obsY, histX, histY, fcalls, flog, setcalls>>

\* the loop body appending the point before evaluating it: a failed
\* evaluation leaves the point in X, with a zero response row in Y
IterEval_partial ==
    /\ pc = "eval"
    /\ fcalls' = fcalls + FnCalls(fxs, resx) /\ flog' = flog \o CallLog(fxs, resx)
    /\ LET r == fx(resx, fxs, dataY) IN
       IF r.err # "none"
       THEN /\ Raise("raised_eval_iter")
            /\ set_data(vstack(dataX, resx), vstack(dataY, Zeros(1, cfg.m)), setcalls)
            /\ UNCHANGED <<obsX, obsY>>
       ELSE /\ values' = r.f
            /\ obsX' = obsX \o resx.rows /\ obsY' = obsY \o r.f.rows
            /\ pc' = "fold"
            /\ UNCHANGED <<dataX, dataY, setcalls, fxs, resx, result, last>>
    /\ UNCHANGED <<env, cfg, initial, n_iter, i, flags, startN, startK,
                   histX, histY>>

\* the argument of the fold in the loop body: fx(result.x)
IterEval ==
    /\ pc = "eval"
    /\ fcalls' = fcalls + FnCalls(fxs, resx) /\ flog' = flog \o CallLog(fxs, resx)
    /\ LET r == fx(resx, fxs, dataY) IN
       IF r.err # "none"
       THEN /\ Raise("raised_eval_iter")
            /\ UNCHANGED <<obsX, obsY>>
       ELSE /\ values' = r.f
            /\ obsX' = obsX \o resx.rows /\ obsY' = obsY \o r.f.rows
            /\ pc' = "fold"
            /\ UNCHANGED <<fxs, resx, result, last>>
    /\ UNCHANGED <<env, cfg, dataX, dataY, initial, n_iter, i, flags, startN, startK,
                   histX, histY, setcalls>>

\* the loop body going on to the next iteration without folding
IterFold_skip ==
    /\ pc = "fold"
    /\ i' = i + 1
    /\ pc' = "loop"
    /\ values' = Empty(0) /\ resx' = Empty(0)
    /\ UNCHANGED <<env, cfg, dataX, dataY, histX, histY, fxs, result, last, initial,
                   n_iter, flags, startN, startK, obsX, obsY, fcalls, flog, setcalls>>

\* self._update_model_data(result.x, fx(result.x)), then the next i
IterFold ==
    /\ pc = "fold"
    /\ LET u == _update_model_data(dataX, dataY, resx, values) IN
       IF u.err # "none"
       THEN /\ Raise("raised_fold_iter")
            /\ UNCHANGED <<dataX, dataY, histX, histY, i, setcalls>>
       ELSE /\ set_data(u.X, u.Y, setcalls)
            /\ histX' = histX \o resx.rows /\ histY' = histY \o values.rows
            /\ i' = i + 1
            /\ pc' = "loop"
            /\ values' = Empty(0) /\ resx' = Empty(0)
            /\ UNCHANGED <<fxs, result, last>>
    /\ UNCHANGED <<env, cfg, initial, n_iter, flags, startN, startK, obsX, obsY, fcalls,
                   flog>>

\* the return of _optimize reporting the run as not successful
Finish_flag ==
    /\ pc = "loop"
    /\ i = n_iter
    /\ LET r == _create_bo_result(cfg, dataX, dataY, FALSE, "OK") IN
       IF r.err # "none"
       THEN /\ Raise("raised_reduce")
            /\ UNCHANGED returned
       ELSE /\ result' = <<r.res>>
            /\ last' = "optimize_ok"
            /\ returned' = TRUE
            /\ pc' = "idle"
            /\ NoLocals
    /\ UNCHANGED <<env, cfg, dataX, dataY, initial, n_iter, i, started, second, afterDone,
                   startN, startK, obsX, obsY, histX, histY, fcalls, flog, setcalls>>

\* return self._create_bo_result(True, "OK")
Finish ==
    /\ pc = "loop"
    /\ i = n_iter
    /\ LET r == _create_bo_result(cfg, dataX, dataY, TRUE, "OK") IN
       IF r.err # "none"
       THEN /\ Raise("raised_reduce")
            /\ UNCHANGED returned
       ELSE /\ result' = <<r.res>>
            /\ last' = "optimize_ok"
            /\ returned' = TRUE
            /\ pc' = "idle"
            /\ NoLocals
    /\ UNCHANGED <<env, cfg, dataX, dataY, initial, n_iter, i, started, second, afterDone,
                   startN, startK, obsX, obsY, histX, histY, fcalls, flog, setcalls>>

\* argument pairs (newX, newY) of at most n rows each for an acquisition of
\* shape c: every pair of the right widths and equal row counts, and
\* zero-filled arrays of every shape of one or two columns
GoodPairs(c, n) ==
    UNION { { <<ds.X, ds.Y>> : ds \in Datasets(c, k) } : k \in 0..n }
ZeroPairs(n) ==
    { <<Zeros(nx, cx), Zeros(ny, cy)>> : nx \in 0..n, ny \in 0..n, cx \in 1..2, cy \in 1..2 }
FoldPairs(c, n) == GoodPairs(c, n) \cup ZeroPairs(n)

\* _update_model_data(newX, newY) called on its own
Fold(newX, newY) ==
    /\ pc = "idle"
    /\ Shape0(dataX) + Shape0(newX) <= MaxDirect
    /\ LET u == _update_model_data(dataX, dataY, newX, newY) IN
       IF u.err # "none"
       THEN /\ last' = "fold_raised"
            /\ setcalls' = 0
            /\ UNCHANGED <<dataX, dataY, histX, histY>>
       ELSE /\ set_data(u.X, u.Y, 0)
            /\ histX' = histX \o newX.rows /\ histY' = histY \o newY.rows
            /\ last' = "fold_ok"
    /\ result' = <<>>
    /\ UNCHANGED <<env, cfg, initial, pc, locals, n_iter, i, flags, startN, startK,
                   obsX, obsY, fcalls, flog>>

\* _create_bo_result(success, message) called on its own
Reduce(success, message) ==
    /\ pc = "idle"
    /\ LET r == _create_bo_result(cfg, dataX, dataY, success, message) IN
       IF r.err # "none"
       THEN /\ last' = "reduce_raised"
            /\ result' = <<>>
       ELSE /\ last' = IF success THEN "reduce_true" ELSE "reduce_false"
            /\ result' = <<r.res>>
    /\ UNCHANGED <<env, cfg, dataX, dataY, initial, pc, locals, n_iter, i, flags,
                   startN, startK, obsX, obsY, histX, histY, fcalls, flog, setcalls>>

Messages == {"OK", "stopped"}

\* _evaluate_objectives(X, fxs) called on its own, once; fxs and resx keep
\* the arguments fxs and X of the call
Evaluate(X, fs) ==
    /\ pc = "idle"
    /\ last = "none"
    /\ fxs' = fs /\ resx' = X
    /\ fcalls' = FnCalls(fs, X) /\ flog' = CallLog(fs, X)
    /\ LET r == _evaluate_objectives(X, fs, dataY) IN
       IF r.err # "none"
       THEN /\ last' = (IF r.err = "AssertionError" THEN "eval_raised_width"
                                                     ELSE "eval_raised")
            /\ result' = <<>>
       ELSE /\ last' = "eval_ok"
            /\ result' = << <<r.f, r.g>> >>
    /\ UNCHANGED <<env, cfg, dataX, dataY, initial, pc, values, n_iter, i, flags,
                   startN, startK, obsX, obsY, histX, histY, setcalls>>

\* the function lists and point batches _evaluate_objectives is called with
EvalFxs == FxsChoices \cup { <<"x", "drop">> }
EvalBatches(c) == DomainMats(c, MaxDirect) \cup { Empty(k) : k \in 1..2 }

\* the initial and hyper_draws arguments of __init__
DesignArgs(c) == {<<>>} \cup { <<g>> : g \in Designs(c) }
HyperArgs == {<<>>, <<0>>, <<1>>}

\* ---------------------------------------------------------- specifications
\* the driver: construction and optimize calls
Next ==
    \/ \E design \in DesignArgs(cfg), hyper \in HyperArgs : Construct(design, hyper)
    \/ \E fs \in FxsChoices, n \in 0..MaxRows : OptimizeStart(fs, n)
    \/ FoldInitial
    \/ \E p \in Domain(cfg) : InnerOptimize(p)
    \/ InnerRaises
    \/ IterEval
    \/ IterFold
    \/ Finish

Spec == Init /\ [][Next]_vars

\* folds alone, on a constructed driver with an empty buffer
InitFold ==
    /\ env = "fold"
    /\ cfg \in Configs
    /\ \E n \in 0..MaxPrior : \E ds \in Datasets(cfg, n) : dataX = ds.X /\ dataY = ds.Y
    /\ pc = "idle"
    /\ InitRest

NextFold ==
    \E a \in FoldPairs(cfg, MaxDirect - Shape0(dataX)) : Fold(a[1], a[2])

SpecFold == InitFold /\ [][NextFold]_vars

\* the reduction alone, on every dataset of at most MaxDirect rows
InitReduce ==
    /\ env = "reduce"
    /\ cfg \in Configs
    /\ \E n \in 0..MaxDirect : \E ds \in Datasets(cfg, n) : dataX = ds.X /\ dataY = ds.Y
    /\ pc = "idle"
    /\ InitRest

NextReduce == \E success \in BOOLEAN, message \in Messages : Reduce(success, message)

SpecReduce == InitReduce /\ [][NextReduce]_vars

\* one evaluation alone, on a constructed driver with an empty buffer
InitEval ==
    /\ env = "evaluate"
    /\ cfg \in Configs
    /\ \E ds \in PriorData(cfg) : dataX = ds.X /\ dataY = ds.Y
    /\ pc = "idle"
    /\ InitRest

NextEval == \E X \in EvalBatches(cfg), fs \in EvalFxs : Evaluate(X, fs)

SpecEval == InitEval /\ [][NextEval]_vars

\* the first iteration of an optimize call on a driver without a design,
\* with the queries of the inner optimizer
InitProbe ==
    /\ env = "probe"
    /\ cfg \in Configs
    /\ \E ds \in PriorData(cfg) : dataX = ds.X /\ dataY = ds.Y
    /\ pc = "unbuilt"
    /\ InitRest

Candidates(c) == { P \in DomainMats(c, MaxDesign) : Shape0(P) >= 1 }

NextProbe ==
    \/ Construct(<<>>, <<>>)
    \/ \E fs \in FxsChoices : OptimizeStart(fs, 1)
    \/ FoldInitial
    \/ \E P \in Candidates(cfg) : Probe(P)

SpecProbe == InitProbe /\ [][NextProbe]_vars

\* every use of the driver that reaches the dataset: each behaviour is one
\* of the first three above
InitAll == Init \/ InitFold \/ InitReduce

NextAll ==
    \/ env = "optimize" /\ Next
    \/ env = "fold" /\ NextFold
    \/ env = "reduce" /\ NextReduce

SpecAll == InitAll /\ [][NextAll]_vars


\* ------------------------------------------------------------------ claims
Rows(A) == Shape0(A)
Suffix(s, n) == SubSeq(s, n + 1, Len(s))
AnyFeasible == \E k \in 1..Shape0(dataY) : feasible_data_index(cfg, dataY)[k]
InCall == pc \in {"fold_initial", "loop", "eval", "fold"}

\* C1: a completed optimize call on a buffer of k rows with n_iter = m leaves
\* the dataset with exactly k + m more rows than at the start of the call;
\* inside the call the dataset has the start rows, the k rows once the
\* initial design is folded, and one more row per completed iteration.
C1_Growth ==
    /\ last = "optimize_ok" =>
          /\ Rows(dataX) = startN + startK + n_iter
          /\ Rows(dataY) = startN + startK + n_iter
    /\ pc = "fold_initial" => Rows(dataX) = startN /\ i = 0
    /\ pc \in {"loop", "eval", "fold"} =>
          /\ Rows(dataX) = startN + startK + i
          /\ i <= n_iter

C1_Witness ==
    /\ last = "optimize_ok"
    /\ startN >= 1 /\ startK >= 1 /\ n_iter >= 1

C3_AppendOnly == dataX.rows = histX /\ dataY.rows = histY

C3_Witness ==
    /\ env = "fold" /\ last = "fold_ok"
    /\ Rows(dataX) = 2
    /\ dataX.rows[1] = dataX.rows[2]
    /\ dataY.rows[1] # dataY.rows[2]

\* C4: with a single objective column and at least one feasible row, the
\* reduction returns the point and objective value of the first feasible
\* row whose objective value is minimal among the feasible rows.
C4_FeasibleMin ==
    (env = "reduce" /\ last # "none" /\ Len(cfg.obj) = 1 /\ AnyFeasible) =>
        /\ last # "reduce_raised"
        /\ result # <<>>
        /\ DOMAIN result[1] = {"x", "success", "fun", "message"}
        /\ LET valid == feasible_data_index(cfg, dataY)
               o == cfg.obj[1]
           IN  \E k \in 1..Rows(dataY) :
                  /\ valid[k]
                  /\ result[1].x = dataX.rows[k]
                  /\ result[1].fun = <<dataY.rows[k][o]>>
                  /\ \A j \in 1..Rows(dataY) : valid[j] => dataY.rows[j][o] >= dataY.rows[k][o]
                  /\ \A j \in 1..(k - 1) : valid[j] => dataY.rows[j][o] > dataY.rows[k][o]

C4_Witness ==
    /\ env = "reduce" /\ last = "reduce_true"
    /\ Len(cfg.obj) = 1 /\ cfg.m = 2
    /\ Rows(dataY) = 2
    /\ ~ feasible_data_index(cfg, dataY)[1]
    /\ feasible_data_index(cfg, dataY)[2]
    /\ dataY.rows[1][1] < dataY.rows[2][1]
    /\ dataX.rows[1] # dataX.rows[2]
    /\ result[1].x = dataX.rows[2]

\* C5: with no feasible row (an empty dataset included) the reduction
\* returns success = False with the message "No evaluations satisfied the
\* constraints" and neither a point nor a value, whatever success flag and
\* message it was given.
C5_NoFeasible ==
    (env = "reduce" /\ last # "none" /\ ~ AnyFeasible) =>
        result = << [success |-> FALSE,
                     message |-> "No evaluations satisfied the constraints"] >>

C5_Witness ==
    /\ env = "reduce" /\ last = "reduce_true"
    /\ Rows(dataY) >= 1
    /\ ~ AnyFeasible
    /\ result[1].success = FALSE

\* C6: when the objective evaluation of a loop iteration raises, the call
\* is over (no further step of it runs) and the dataset is the one the last
\* completed fold left: the rows at the start of the call, the initial
\* design and one row per completed iteration, none for the failed one.
C6_AbortKeepsData ==
    last = "raised_eval_iter" =>
        /\ pc = "idle" /\ fxs = <<>>
        /\ i < n_iter
        /\ Rows(dataX) = startN + startK + i
        /\ Rows(dataY) = startN + startK + i
        /\ Suffix(dataX.rows, startN) = obsX
        /\ Suffix(dataY.rows, startN) = obsY
        /\ result = <<>>

C6_Witness ==
    /\ last = "raised_eval_iter"
    /\ i >= 1
    /\ startK >= 1

\* C8: whenever the inner optimizer is about to be called or has just
\* returned, every observation the call has made so far (the initial
\* design first, then one per iteration) is in the dataset, in order.
C8_Sequential ==
    pc \in {"loop", "eval"} =>
        /\ Len(obsX) = startK + i
        /\ Suffix(dataX.rows, startN) = obsX
        /\ Suffix(dataY.rows, startN) = obsY

C8_Witness ==
    /\ pc = "loop" /\ i < n_iter
    /\ i >= 1
    /\ startK >= 1

\* C9: X and Y always have the same number of rows, every row of X has D
\* entries and every row of Y has M entries.
C9_Shape ==
    /\ Rows(dataX) = Rows(dataY)
    /\ Shape1(dataX) = cfg.d
    /\ Shape1(dataY) = cfg.m
    /\ \A k \in 1..Rows(dataX) : Len(dataX.rows[k]) = cfg.d
    /\ \A k \in 1..Rows(dataY) : Len(dataY.rows[k]) = cfg.m

C9_Witness ==
    /\ env = "fold" /\ last = "fold_raised"
    /\ Rows(dataX) >= 1


Mismatch(newX, newY) ==
    \/ Shape1(newX) # cfg.d
    \/ Shape1(newY) # cfg.m
    \/ Shape0(newX) # Shape0(newY)

\* C7: a fold whose points do not have D columns, whose responses do not
\* have M columns, or whose row counts differ, fails and leaves the dataset
\* as it was.
C7_BadFoldFails ==
    [][ env = "fold" =>
          \A a \in ZeroPairs(MaxDirect - Shape0(dataX)) :
             (Mismatch(a[1], a[2]) /\ Fold(a[1], a[2])) =>
                 /\ last' = "fold_raised"
                 /\ dataX' = dataX
                 /\ dataY' = dataY ]_vars

C7_Witness ==
    /\ env = "fold" /\ last = "fold_raised"
    /\ Rows(dataX) = 1
    /\ dataX.rows = histX /\ dataY.rows = histY

\* C10: constructing the driver leaves the acquisition's dataset as it was
\* and evaluates nothing; it stores the generated design in the buffer, an
\* empty one when no design is given.
C10_ConstructFrame ==
    [][ pc = "unbuilt" =>
          \A design \in DesignArgs(cfg), hyper \in HyperArgs :
             Construct(design, hyper) =>
                 /\ dataX' = dataX /\ dataY' = dataY
                 /\ fcalls' = fcalls /\ obsX' = obsX /\ obsY' = obsY
                 /\ pc' = "idle" =>
                       initial' = (IF design = <<>> THEN Empty(cfg.d) ELSE design[1]) ]_vars

C10_Witness ==
    /\ last = "construct"
    /\ Rows(initial) >= 1
    /\ Rows(dataX) >= 1
    /\ dataX.rows = histX
    /\ fcalls = 0

NoFeasibleResult ==
    [success |-> FALSE, message |-> "No evaluations satisfied the constraints"]

\* C11: an optimize call with n_iter = 0 on an empty buffer changes the
\* dataset in none of its steps, runs the reduction and returns; when no
\* row is feasible (the empty dataset included) it returns the no-feasible
\* failure result and does not raise; when a row is feasible and it
\* returns, the point it returns is a feasible row of that prior data.
C11_ZeroIter ==
    /\ [][ (env = "optimize" /\ n_iter' = 0 /\ startK' = 0 /\ (InCall \/ InCall'))
             => (dataX' = dataX /\ dataY' = dataY) ]_vars
    /\ [] ( (started /\ pc = "idle" /\ n_iter = 0 /\ startK = 0) =>
              /\ last \in {"optimize_ok", "raised_reduce"}
              /\ Rows(dataX) = startN
              /\ ~ AnyFeasible => (last = "optimize_ok" /\ result = <<NoFeasibleResult>>)
              /\ (AnyFeasible /\ last = "optimize_ok") =>
                    /\ result[1].success
                    /\ \E k \in 1..Rows(dataX) :
                          /\ feasible_data_index(cfg, dataY)[k]
                          /\ result[1].x = dataX.rows[k] )

C11_Witness ==
    /\ last = "optimize_ok"
    /\ n_iter = 0 /\ startK = 0
    /\ startN >= 1
    /\ ~ AnyFeasible
    /\ result = <<NoFeasibleResult>>

\* one objective column and no constraint, nothing in the dataset and
\* nothing in the buffer when the call started, and an inner optimizer
\* that has proposed the same point every time
Scenario ==
    /\ env = "optimize"
    /\ cfg.m = 1 /\ cfg.obj = <<1>>
    /\ startN = 0 /\ startK = 0
    /\ obsX # <<>>
    /\ \A k \in 1..Len(obsX) : obsX[k] = obsX[1]

\* C13: in that scenario, with f the one function supplied and p the
\* point proposed, the dataset after j iterations is j rows (p, f(p)); when
\* optimize returns after n_iter = m >= 1 iterations the dataset is m rows
\* (p, f(p)), all feasible, and the result is x = p, value = f(p),
\* success = True, message "OK".
C13_EndToEnd ==
    /\ (Scenario /\ pc = "loop") =>
          /\ Len(fxs) = 1
          /\ dataX.rows = [k \in 1..i |-> obsX[1]]
          /\ dataY.rows = [k \in 1..i |-> FnRow(fxs[1], obsX[1])]
    /\ (Scenario /\ last = "optimize_ok") =>
          /\ n_iter >= 1
          /\ dataX.rows = [k \in 1..n_iter |-> obsX[1]]
          /\ dataY.rows = [k \in 1..n_iter |-> obsY[1]]
          /\ obsY[1] \in { <<obsX[1][1]>>, <<MaxVal - obsX[1][1]>> }
          /\ feasible_data_index(cfg, dataY) = [k \in 1..n_iter |-> TRUE]
          /\ result = << [x |-> obsX[1], success |-> TRUE,
                          fun |-> obsY[1], message |-> "OK"] >>

C13_Witness ==
    /\ Scenario /\ last = "optimize_ok"
    /\ cfg.d = 1
    /\ n_iter = 3
    /\ result[1].fun # result[1].x

\* the first column of the k-th array of a column-wise concatenation
RECURSIVE Offset(_, _)
Offset(fs, k) == IF k = 1 THEN 0 ELSE Offset(fs, k - 1) + FnWidth(fs[k - 1])

\* C12: _evaluate_objectives on an empty point set returns a response
\* matrix of zero rows and as many columns as the dataset's responses have,
\* and a placeholder of zero rows and zero columns; no function is called.
C12_EmptyBatch ==
    (env = "evaluate" /\ last # "none" /\ Rows(resx) = 0) =>
        /\ last = "eval_ok"
        /\ Rows(result[1][1]) = 0
        /\ Shape1(result[1][1]) = Shape1(dataY)
        /\ Rows(result[1][2]) = 0
        /\ Shape1(result[1][2]) = 0

C12_Witness ==
    /\ env = "evaluate" /\ last = "eval_ok"
    /\ Rows(resx) = 0
    /\ Shape1(resx) = 1 /\ Shape1(dataY) = 2
    /\ Rows(dataY) >= 1
    /\ Len(fxs) = 1
    /\ result[1][1] = Empty(2)

\* C14: _evaluate_objectives on a batch of N >= 1 points leaves the dataset
\* alone and calls every function, in the order given, on the whole batch;
\* when each function returns N rows, the call returns the N-row matrix
\* whose rows are the functions' rows side by side in the order given,
\* with a placeholder of N rows and no columns, if the total width is the
\* width of the dataset's responses, and fails if it is not.
C14_Concat ==
    (env = "evaluate" /\ last # "none" /\ Size(resx) > 0) =>
        LET N == Rows(resx)
            L == Len(fxs)
            raises == \E k \in 1..L : FnRaises(fxs[k], resx)
            contract == \A k \in 1..L : Shape0(FnApply(fxs[k], resx)) = N
        IN  /\ dataX.rows = histX /\ dataY.rows = histY
            /\ setcalls = 0
            /\ ~ raises => flog = [k \in 1..L |-> <<k, resx.rows>>]
            /\ (~ raises /\ contract /\ Offset(fxs, L + 1) # Shape1(dataY)) =>
                   last = "eval_raised_width" /\ result = <<>>
            /\ (~ raises /\ contract /\ Offset(fxs, L + 1) = Shape1(dataY)) =>
                   /\ last = "eval_ok"
                   /\ Rows(result[1][1]) = N
                   /\ Shape1(result[1][1]) = Shape1(dataY)
                   /\ \A n \in 1..N :
                         /\ Len(result[1][1].rows[n]) = Shape1(dataY)
                         /\ \A k \in 1..L : \A j \in 1..FnWidth(fxs[k]) :
                               result[1][1].rows[n][Offset(fxs, k) + j]
                                  = FnRow(fxs[k], resx.rows[n])[j]
                   /\ result[1][2] = [nc |-> 0, rows |-> [n \in 1..N |-> <<>>]]

C14_Witness ==
    /\ env = "evaluate" /\ last = "eval_ok"
    /\ Rows(resx) = 2
    /\ fxs = <<"inv", "x">>
    /\ resx.rows[1] # resx.rows[2]
    /\ result[1][1].rows[1] = <<MaxVal - resx.rows[1][1], resx.rows[1][1]>>
    /\ result[1][1].rows[1] # result[1][1].rows[2]
    /\ Rows(dataY) >= 1

\* C15: the function the inner optimizer is given returns, for every
\* candidate point, the utility of evaluate_with_gradients at that point
\* with its sign changed and the gradient with the sign of every coordinate
\* changed; asking changes neither the dataset nor, with it, what the
\* acquisition returns.
C15_Negated ==
    (env = "probe" /\ pc = "loop" /\ result # <<>>) =>
        LET r == evaluate_with_gradients(dataX, dataY, resx)
            v == result[1]
        IN  /\ Len(v) = 2
            /\ Shape0(v[1]) = Shape0(resx) /\ Shape1(v[1]) = 1
            /\ Shape0(v[2]) = Shape0(resx) /\ Shape1(v[2]) = cfg.d
            /\ \A n \in 1..Shape0(resx) :
                  /\ v[1].rows[n][1] + r[1].rows[n][1] = 0
                  /\ \A j \in 1..cfg.d : v[2].rows[n][j] + r[2].rows[n][j] = 0
            /\ dataX.rows = histX /\ dataY.rows = histY
            /\ setcalls = 1

C15_Witness ==
    /\ env = "probe" /\ pc = "loop" /\ result # <<>>
    /\ cfg.d = 2
    /\ Shape0(resx) = 1
    /\ result[1][1].rows[1][1] < 0
    /\ result[1][2].rows[1][1] > 0
    /\ result[1][2].rows[1][2] < 0
    /\ Rows(dataX) >= 1

\* C16: when optimize returns a result with a point, whatever the number of
\* objective columns, the point is a feasible row of the dataset, the value
\* is the objective columns of that same row, success is True and the
\* message is "OK"; and whenever optimize returns while a feasible row
\* exists, its result carries a point and reports success.
C16_ResultRow ==
    (env = "optimize" /\ last = "optimize_ok") =>
        /\ "x" \in DOMAIN result[1] =>
              /\ \E k \in 1..Rows(dataX) :
                    /\ feasible_data_index(cfg, dataY)[k]
                    /\ result[1].x = dataX.rows[k]
                    /\ result[1].fun = TakeCols(dataY.rows[k], cfg.obj)
              /\ result[1].success = TRUE
              /\ result[1].message = "OK"
        /\ AnyFeasible => ("x" \in DOMAIN result[1] /\ result[1].success = TRUE)

C16_Witness ==
    /\ env = "optimize" /\ last = "optimize_ok"
    /\ Len(cfg.obj) = 2
    /\ Rows(dataX) >= 2
    /\ "x" \in DOMAIN result[1]
    /\ result[1].x = dataX.rows[2]
    /\ result[1].x # dataX.rows[1]
    /\ result[1].fun = dataY.rows[2]

RaisedInitial == {"raised_eval_initial", "raised_fold_initial"}

\* C17: a step of optimize that fails while evaluating or folding the
\* initial design leaves the buffer and the dataset as they were; after it
\* the buffer still holds the design, and the optimize call that follows
\* starts on the same buffer and the same dataset and calls the functions
\* on the design again. The buffer changes only at construction and at the
\* initial fold that succeeds, which makes it empty.
C17_BufferKept ==
    /\ [][ env = "optimize" =>
             /\ (last' \in RaisedInitial \/ pc' = "fold_initial") =>
                    (initial' = initial /\ dataX' = dataX /\ dataY' = dataY)
             /\ (last \in RaisedInitial /\ pc = "idle") =>
                    /\ startK' = startK /\ startN' = startN
                    /\ fcalls' >= 1
                    /\ flog'[1] = <<1, initial.rows>>
                    /\ pc' = "fold_initial" => obsX' = initial.rows
             /\ initial' # initial =>
                    \/ pc = "unbuilt"
                    \/ /\ pc = "fold_initial" /\ pc' = "loop"
                       /\ initial' = Empty(cfg.d)
                       /\ dataX'.rows = dataX.rows \o initial.rows ]_vars
    /\ [] ( (env = "optimize" /\ last \in RaisedInitial) =>
              /\ pc = "idle"
              /\ startK >= 1
              /\ Rows(initial) = startK
              /\ Rows(dataX) = startN /\ Rows(dataY) = startN
              /\ setcalls = 0 )

C17_Witness ==
    /\ env = "optimize"
    /\ last = "raised_fold_initial"
    /\ second
    /\ startK >= 1 /\ startN >= 1
    /\ Rows(initial) = startK

\* C18: set_data is called once by the initial fold, also when the buffer
\* is empty and the dataset stays as it is, and once by the fold of every
\* iteration, so an optimize call that returns has made 1 + n_iter calls;
\* construction, the evaluation of the objectives, the inner optimizer and
\* the reduction make none.
C18_SetDataCalls ==
    env = "optimize" =>
        /\ (pc = "unbuilt" \/ last \in {"construct", "construct_raised"}) => setcalls = 0
        /\ (pc = "fold_initial" \/ last \in RaisedInitial) => setcalls = 0
        /\ pc \in {"loop", "eval", "fold"} => setcalls = 1 + i
        /\ last \in {"raised_inner", "raised_eval_iter", "raised_fold_iter"} =>
              setcalls = 1 + i
        /\ last \in {"optimize_ok", "raised_reduce"} => setcalls = 1 + n_iter
        /\ (pc = "loop" /\ i = 0 /\ startK = 0) => Rows(dataX) = startN

C18_Witness ==
    /\ env = "optimize" /\ last = "optimize_ok"
    /\ startK = 0 /\ startN >= 1
    /\ n_iter = 2
    /\ setcalls = 3

\* L functions called in turn on each batch of B
ExpectedLog(L, B) ==
    [q \in 1..(L * Len(B)) |-> << ((q - 1) % L) + 1, B[((q - 1) \div L) + 1] >>]

\* the batches an optimize call has evaluated after j iterations: the
\* initial design if it has rows, then one point per iteration
Batches(j) ==
    (IF startK > 0 THEN << SubSeq(obsX, 1, startK) >> ELSE <<>>)
    \o [k \in 1..j |-> << obsX[startK + k] >>]

\* C19: no function is ever called on an empty batch; between iterations
\* and when optimize returns, the calls made are, in order: every function
\* once on the whole initial design if the buffer had rows (none if it was
\* empty), then per iteration every function once on the one point the
\* inner optimizer returned.
C19_FunctionCalls ==
    env = "optimize" =>
        /\ \A q \in 1..Len(flog) : flog[q][2] # <<>>
        /\ fcalls = Len(flog)
        /\ pc = "loop" =>
              /\ Len(obsX) = startK + i
              /\ flog = ExpectedLog(Len(fxs), Batches(i))
        /\ pc = "fold" =>
              /\ Rows(resx) = 1
              /\ flog[Len(flog)][2] = resx.rows
        /\ last = "optimize_ok" =>
              /\ Len(obsX) = startK + n_iter
              /\ \E L \in 1..2 : flog = ExpectedLog(L, Batches(n_iter))

C19_Witness ==
    /\ env = "optimize" /\ last = "optimize_ok"
    /\ startK = 1 /\ n_iter = 2
    /\ Len(flog) = 6
    /\ flog[2] = <<2, <<obsX[1]>> >>
    /\ flog[5] = <<1, <<obsX[3]>> >>
    /\ obsX[3] # obsX[2]

====
